---- MODULE Spec2Model ----
(***************************************************************************)
(* Model of UliSerial/Printer3D/Marlin.py: the MarlinProtocol line session *)
(* (line classification, telemetry parsing, the acknowledgement queue) and *)
(* the MarlinPrinterThread supervisor (start, polling thread, stop).       *)
(*                                                                         *)
(* A line is a sequence of one-character strings, so that strip, split,    *)
(* partition, replace, startswith and float() are computed on characters.  *)
(* Sample and report timestamps (time.time()) are not modelled.            *)
(***************************************************************************)
EXTENDS Integers, Sequences, FiniteSets, TLC

\* ------------------------------------------------------------------ bounds

\* Lines the reader hands to handle_line in one behaviour.
MaxLines == 3
\* start() calls in one behaviour (each creates one polling thread).
MaxStarts == 2
\* stop() calls of the supervisor in one behaviour.
MaxStops == 2
\* M114 position queries the polling threads write in one behaviour.
MaxPolls == 1
\* Commands the callers of the session send in one behaviour.
MaxCommands == 2
\* Seconds of clock per Tick step.
TickSeconds == 15

\* ------------------------------------------------------- program constants

\* responses.get(timeout=30)
ResponseTimeout == 30
\* queue.Queue(32768)
QueueCapacity == 32768

\* ------------------------------------------------------------ str methods

\* Characters str.strip() and str.split() treat as whitespace (the ASCII ones
\* a serial line can carry; the line terminator itself is cut by LineReader).
Whitespace == {" ", "\t", "\r"}

Digits == {"0", "1", "2", "3", "4", "5", "6", "7", "8", "9"}

DigitVal(c) ==
    CASE c = "0" -> 0 [] c = "1" -> 1 [] c = "2" -> 2 [] c = "3" -> 3
      [] c = "4" -> 4 [] c = "5" -> 5 [] c = "6" -> 6 [] c = "7" -> 7
      [] c = "8" -> 8 [] c = "9" -> 9

RECURSIVE LStrip(_)
LStrip(s) ==
    IF s # <<>> /\ Head(s) \in Whitespace THEN LStrip(Tail(s)) ELSE s

RECURSIVE RStrip(_)
RStrip(s) ==
    IF s # <<>> /\ s[Len(s)] \in Whitespace
    THEN RStrip(SubSeq(s, 1, Len(s) - 1))
    ELSE s

\* str.strip()
Strip(s) == RStrip(LStrip(s))

\* str.startswith(p)
StartsWith(s, p) == Len(s) >= Len(p) /\ SubSeq(s, 1, Len(p)) = p

\* str.find(p) + 1: the 1-based index of the first occurrence of p, 0 if none
Find(s, p) ==
    LET hits == {i \in 1..(Len(s) - Len(p) + 1) : SubSeq(s, i, i + Len(p) - 1) = p}
    IN  IF hits = {} THEN 0 ELSE CHOOSE i \in hits : \A j \in hits : i <= j

\* p in s
Contains(s, p) == Find(s, p) # 0

\* str.partition(sep): <<before, sep, after>>, or <<s, "", "">> without sep
Partition(s, sep) ==
    LET i == Find(s, sep)
    IN  IF i = 0 THEN <<s, <<>>, <<>>>>
        ELSE <<SubSeq(s, 1, i - 1), sep, SubSeq(s, i + Len(sep), Len(s))>>

\* str.partition(sep)[::2]
PartitionLabelValue(s, sep) == <<Partition(s, sep)[1], Partition(s, sep)[3]>>

\* str.replace(old, new): every non-overlapping occurrence, left to right
RECURSIVE Replace(_, _, _)
Replace(s, old, new) ==
    IF s = <<>> THEN <<>>
    ELSE IF StartsWith(s, old)
         THEN new \o Replace(SubSeq(s, Len(old) + 1, Len(s)), old, new)
         ELSE <<Head(s)>> \o Replace(Tail(s), old, new)

\* The first whitespace-free run of s (s starts with a non-whitespace character)
RECURSIVE TakeWord(_)
TakeWord(s) ==
    IF s = <<>> \/ Head(s) \in Whitespace THEN <<>>
    ELSE <<Head(s)>> \o TakeWord(Tail(s))

\* str.split(): the whitespace-separated words, none of them empty
RECURSIVE Split(_)
Split(s) ==
    LET t == LStrip(s)
    IN  IF t = <<>> THEN <<>>
        ELSE LET w == TakeWord(t)
             IN  <<w>> \o Split(SubSeq(t, Len(w) + 1, Len(t)))

\* str.split(sep) for a one-character sep: the pieces, empty ones included
RECURSIVE SplitOn(_, _)
SplitOn(s, sep) ==
    LET i == Find(s, sep)
    IN  IF i = 0 THEN <<s>>
        ELSE <<SubSeq(s, 1, i - 1)>> \o SplitOn(SubSeq(s, i + Len(sep), Len(s)), sep)

\* ------------------------------------------------------------------ float()

RECURSIVE DigitsValue(_)
DigitsValue(s) ==
    IF s = <<>> THEN 0 ELSE 10 * DigitsValue(SubSeq(s, 1, Len(s) - 1)) + DigitVal(s[Len(s)])

AllDigits(s) == \A i \in 1..Len(s) : s[i] \in Digits

RECURSIVE StripTrailingZeros(_)
StripTrailingZeros(s) ==
    IF s # <<>> /\ s[Len(s)] = "0" THEN StripTrailingZeros(SubSeq(s, 1, Len(s) - 1)) ELSE s

\* A float is kept exact, as the decimal m / 10^e with the fraction's trailing
\* zeros dropped, so that float("101.00") = float("101") and 20.38 # 20.3.
\* The result of float(s) is [ok |-> TRUE, m, e], or [ok |-> FALSE] where
\* float() raises ValueError. Plain decimals only: [+-] digits [. digits];
\* exponents, "inf", "nan" and underscores are not input of this model.
ValueError == [ok |-> FALSE, m |-> 0, e |-> 0]

ParseFloat(s) ==
    LET signed == s # <<>> /\ Head(s) \in {"+", "-"}
        body == IF signed THEN Tail(s) ELSE s
        parts == Partition(body, <<".">>)
        ip == parts[1]
        fp == StripTrailingZeros(parts[3])
        wellFormed == /\ AllDigits(ip) /\ AllDigits(parts[3])
                      /\ Len(ip) + Len(parts[3]) > 0
        mag == DigitsValue(ip \o fp)
    IN  IF ~wellFormed THEN ValueError
        ELSE [ok |-> TRUE,
              m |-> IF signed /\ Head(s) = "-" THEN 0 - mag ELSE mag,
              e |-> Len(fp)]

\* A float value as stored in a sample, and None where a sample has none
Float(f) == [none |-> FALSE, m |-> f.m, e |-> f.e]

NoneFloat == [none |-> TRUE, m |-> 0, e |-> 0]

\* None in a report slot (a line is a sequence of one-character strings)
None == <<"None">>

\* '<exit>', the value stop() puts on the responses queue
Sentinel == <<"<exit>">>

\* dict[key] = value on a dict kept as a function
DictSet(d, k, v) == [x \in (DOMAIN d) \cup {k} |-> IF x = k THEN v ELSE d[x]]

EmptyDict == [x \in {} |-> NoneFloat]

\* ----------------------------------------------------- telemetry parsing

Temperature(actual, setpoint) == [actual |-> actual, setpoint |-> setpoint]

Position(value, steps) == [value |-> value, steps |-> steps]

\* The loop of parse_temperature_report over the parts of the line: each part
\* writes self.temperatures as it is parsed, and the first float() or unpacking
\* that fails raises, the entries written before it kept.
RECURSIVE TemperatureParts(_, _)
TemperatureParts(parts, temps) ==
    IF parts = <<>> THEN [raised |-> FALSE, temperatures |-> temps]
    ELSE
      LET lv == PartitionLabelValue(Head(parts), <<":">>)
          label == lv[1]
          value == lv[2]
          pieces == SplitOn(value, <<"/">>)
          raise == [raised |-> TRUE, temperatures |-> temps]
      IN  IF Contains(label, <<"@">>) THEN TemperatureParts(Tail(parts), temps)
          ELSE IF Contains(value, <<"/">>)
          THEN IF Len(pieces) # 2 THEN raise
               ELSE IF ~ParseFloat(pieces[1]).ok \/ ~ParseFloat(pieces[2]).ok THEN raise
               ELSE TemperatureParts(Tail(parts),
                        DictSet(temps, label,
                                Temperature(Float(ParseFloat(pieces[1])),
                                            Float(ParseFloat(pieces[2])))))
          ELSE IF ~ParseFloat(value).ok THEN raise
               ELSE TemperatureParts(Tail(parts),
                        DictSet(temps, label,
                                Temperature(Float(ParseFloat(value)), NoneFloat)))

\* A parse_temperature_report without line 106: the setpoint column is not
\* joined to the temperature column before the split.
ParseTemperatureReportUnjoined(line, temps) ==
    LET r == TemperatureParts(Split(line), temps)
    IN  [raised |-> r.raised, temperatures |-> r.temperatures, report |-> line]

\* parse_temperature_report(line) on self.temperatures = temps: the raw report
\* it records (the line with " /" joined to "/") and the map it leaves.
ParseTemperatureReport(line, temps) ==
    LET joined == Replace(line, <<" ", "/">>, <<"/">>)
        r == TemperatureParts(Split(joined), temps)
    IN  [raised |-> r.raised, temperatures |-> r.temperatures, report |-> joined]

\* One "label:value" loop of parse_position_report: the dict it builds, or the
\* ValueError of the first value float() rejects.
RECURSIVE PositionParts(_, _)
PositionParts(parts, values) ==
    IF parts = <<>> THEN [raised |-> FALSE, values |-> values]
    ELSE
      LET lv == PartitionLabelValue(Strip(Head(parts)), <<":">>)
      IN  IF ~ParseFloat(lv[2]).ok THEN [raised |-> TRUE, values |-> values]
          ELSE PositionParts(Tail(parts), DictSet(values, lv[1], Float(ParseFloat(lv[2]))))

DictGet(d, k) == IF k \in DOMAIN d THEN d[k] ELSE NoneFloat

Count == <<"C", "o", "u", "n", "t">>

\* parse_position_report(line): the raw report it records and the dict it
\* RETURNS (it assigns nothing to self.positions).
ParsePositionReport(line) ==
    LET hasCount == Contains(line, Count)
        mmText == IF hasCount THEN Strip(Partition(line, Count)[1]) ELSE line
        countText == IF hasCount THEN Strip(Partition(line, Count)[3]) ELSE <<>>
        mm == PositionParts(Split(mmText), EmptyDict)
        steps == PositionParts(Split(countText), EmptyDict)
        keys == (DOMAIN mm.values) \cup (DOMAIN steps.values)
    IN  [raised |-> mm.raised \/ steps.raised,
         report |-> line,
         positions |-> IF mm.raised \/ steps.raised THEN EmptyDict
                       ELSE [k \in keys |->
                               Position(DictGet(mm.values, k), DictGet(steps.values, k))]]

\* ------------------------------------------------------------------ state

VARIABLES
    \* MarlinProtocol (the session)
    responses,                \* self.responses, oldest first
    temperatures,             \* self.temperatures
    positions,                \* self.positions
    last_temperature_report,  \* self.last_temperature_report (the line)
    last_position_report,     \* self.last_position_report (the line)
    alive,                    \* self.alive: TRUE until stop() sets it False
    \* the transport
    serialOpen,               \* the serial port is open
    readerState,              \* the ReaderThread: "none", "running" or "lost"
    written,                  \* lines written to the port, counted per command
    \* MarlinPrinterThread (the supervisor)
    closeSerialOnExit,        \* self._close_serial_on_exit
    printer,                  \* self.printer is not None
    thread,                   \* self.thread: a polling thread's number, 0 for None
    stopThread,               \* self._stop_thread
    \* threads
    pc,                       \* where each thread is
    waited,                   \* seconds a thread has been blocked in responses.get
    callWrites,               \* lines the thread's current call has written
    sentAt,                   \* items put on responses before that call wrote
    result,                   \* how the thread's last call ended
    \* history
    lastLine,                 \* the line handle_line was last called with
    nLines,                   \* lines handled so far
    fed,                      \* every item put on responses, in order
    completions,              \* every item responses.get returned, in order
    stopLog,                  \* one record per supervisor stop() call
    starts,                   \* start() calls so far
    nCommands,                \* commands the session's callers have sent
    sessionStops              \* MarlinProtocol.stop() calls so far

sessionVars == <<responses, temperatures, positions, last_temperature_report,
                 last_position_report, alive>>
transportVars == <<serialOpen, readerState, written>>
supervisorVars == <<closeSerialOnExit, printer, thread, stopThread>>
threadVars == <<pc, waited, callWrites, sentAt, result>>
historyVars == <<lastLine, nLines, fed, completions, stopLog, starts, nCommands,
                 sessionStops>>
vars == <<sessionVars, transportVars, supervisorVars, threadVars, historyVars>>

Main == <<"main", 0>>
User == <<"user", 0>>
Poll(i) == <<"poll", i>>

Callers == {Main, User}
PollThreads == {Poll(i) : i \in 1..MaxStarts}
Threads == Callers \cup PollThreads

Commands == {"M155S1", "M155S0", "M114", "G91", "M104 S0"}

WaitPcs == {"call_wait", "enable_wait", "poll_wait", "stop_wait"}

NoResult == [outcome |-> "none", value |-> None, waited |-> 0, writes |-> 0]

Outcome(t, what, value) ==
    [outcome |-> what, value |-> value, waited |-> waited[t], writes |-> callWrites[t]]

\* ----------------------------------------------------------------- inputs

Sp == <<" ">>
Ok == <<"o", "k">>
TokT2038 == <<"T", ":", "2", "0", ".", "3", "8">>
TokSet185 == <<"/", "1", "8", "5", ".", "0", "0">>
TokPwm == <<"@", ":", "1", "2", "7">>
TokB == <<"B", ":", "2", "1", ".", "5">>
TokTBad == <<"T", ":", "2", "0", ".", "x">>
TokX101 == <<"X", ":", "1", "0", "1", ".", "0", "0">>
TokY0 == <<"Y", ":", "0", ".", "0", "0">>
TokZ0 == <<"Z", ":", "0", ".", "0", "0">>
TokE0 == <<"E", ":", "0", ".", "0", "0">>
TokXSteps == <<"X", ":", "1", "0", "1", "0", "0">>
TokYSteps == <<"Y", ":", "0">>
TokZSteps == <<"Z", ":", "0">>

LineEmpty == <<>>
LineBlank == <<" ", "\t", "\r">>
LineOk == Ok
LineOkPadded == <<" ">> \o Ok \o <<" ", "1", "\r">>
\* "ok T:20.38 /185.00"
LineOkTemperature == Ok \o Sp \o TokT2038 \o Sp \o TokSet185
\* "T:20.38 /185.00 @:127"
LineTemperature == TokT2038 \o Sp \o TokSet185 \o Sp \o TokPwm
\* "T:20.38 /185.00 B:21.5 @:127"
LineTemperatureBed == TokT2038 \o Sp \o TokSet185 \o Sp \o TokB \o Sp \o TokPwm
\* "T:20.38 /185.00 B:21.5 T:20.x"
LineTemperatureBad == TokT2038 \o Sp \o TokSet185 \o Sp \o TokB \o Sp \o TokTBad
\* "X:101.00 Y:0.00 Z:0.00 E:0.00 Count X:10100 Y:0 Z:0"
LinePosition ==
    TokX101 \o Sp \o TokY0 \o Sp \o TokZ0 \o Sp \o TokE0 \o Sp \o Count \o Sp
        \o TokXSteps \o Sp \o TokYSteps \o Sp \o TokZSteps
\* "X:101.00 Y:0.00"
LinePositionNoCount == TokX101 \o Sp \o TokY0
\* "X:101.00 Y:abc"
LinePositionBad == TokX101 \o Sp \o <<"Y", ":", "a", "b", "c">>
\* "echo:busy"
LineUnknown == <<"e", "c", "h", "o", ":", "b", "u", "s", "y">>

\* What the firmware sends while a session is used on its own.
Lines ==
    {LineEmpty, LineBlank, LineOk, LineOkPadded, LineOkTemperature, LineTemperature,
     LineTemperatureBed, LineTemperatureBad, LinePosition, LinePositionNoCount,
     LinePositionBad, LineUnknown}

\* The acknowledgements the firmware sends while commands are being sent.
AckLines == {LineOk, LineOkPadded}

\* What the firmware sends while the supervisor runs: the acknowledgements its
\* threads wait for (a telemetry line changes no state they read).
SupervisedLines == {LineOk}

\* ---------------------------------------------------- MarlinProtocol

\* A dispatch that, like pyserial's ATProtocol example, takes every line that
\* is not telemetry for a response, and has no test for the empty line.
ClassifyResponseByDefault(line) ==
    IF StartsWith(line, <<"T">>) THEN "temperature"
    ELSE IF StartsWith(line, <<"X">>) THEN "position"
    ELSE "ok"

\* A dispatch that looks for the report's first field anywhere in the line
\* ("T:" in line) before it looks for "ok".
ClassifyByContent(line) ==
    IF line = <<>> THEN "empty"
    ELSE IF Contains(line, <<"T", ":">>) THEN "temperature"
    ELSE IF Contains(line, <<"X", ":">>) THEN "position"
    ELSE IF StartsWith(line, <<"o", "k">>) THEN "ok"
    ELSE "unknown"

\* The dispatch of handle_line on the stripped line: which branch runs.
Classify(line) ==
    IF line = <<>> THEN "empty"
    ELSE IF StartsWith(line, <<"o", "k">>) THEN "ok"
    ELSE IF StartsWith(line, <<"T">>) THEN "temperature"
    ELSE IF StartsWith(line, <<"X">>) THEN "position"
    ELSE "unknown"

\* queue.Queue.put and queue.Queue.get on responses (FIFO)
QueuePut(q, item) == Append(q, item)

\* A get that takes the newest item (queue.LifoQueue).
QueueGetNewest(q) == [item |-> q[Len(q)], rest |-> SubSeq(q, 1, Len(q) - 1)]

QueueGet(q) == [item |-> Head(q), rest |-> Tail(q)]

\* A get that does not wait (get_nowait, timeout=0).
TimedOutAtOnce(w) == w >= 0

\* responses.get(timeout=30) gives up: the time waited has reached the timeout
TimedOut(w) == w >= ResponseTimeout

\* A handle_line without the try: what a parser raises leaves handle_line and
\* data_received, and ReaderThread.run ends the reader thread on it.
ReaderEndsOnError(raised) == IF raised THEN "lost" ELSE readerState

\* handle_line, the try and the bare except around the dispatch: whatever a
\* parser raises is caught and printed, handle_line returns, and the reader
\* thread goes on with the next line.
ReaderAfterLine(raised) == readerState

\* handle_line(line), called by the reader thread for every line received.
\* A parser that raises is caught by the bare except: what it wrote stays.
HandleLine(line) ==
    /\ readerState = "running"
    /\ nLines < MaxLines
    /\ LET s == Strip(line)
           kind == Classify(s)
           t == ParseTemperatureReport(s, temperatures)
           p == ParsePositionReport(s)
           raised == \/ kind = "temperature" /\ t.raised
                     \/ kind = "position" /\ p.raised
       IN  /\ kind = "ok" => Len(responses) < QueueCapacity
           /\ readerState' = ReaderAfterLine(raised)
           /\ responses' = IF kind = "ok" THEN QueuePut(responses, s) ELSE responses
           /\ fed' = IF kind = "ok" THEN Append(fed, s) ELSE fed
           /\ temperatures' = IF kind = "temperature" THEN t.temperatures ELSE temperatures
           /\ last_temperature_report' =
                  IF kind = "temperature" THEN t.report ELSE last_temperature_report
           /\ last_position_report' =
                  IF kind = "position" THEN p.report ELSE last_position_report
           /\ UNCHANGED <<positions, alive>>
    /\ lastLine' = line
    /\ nLines' = nLines + 1
    /\ UNCHANGED <<serialOpen, written, supervisorVars, threadVars, completions,
                   stopLog, starts, nCommands, sessionStops>>

\* write_line(command) reaches the port: the reader thread is connected to an
\* open port. Otherwise the write raises (the port is closed, or the protocol
\* has lost its transport).
TransportUp == readerState = "running" /\ serialOpen

WriteLine(command) == [written EXCEPT ![command] = @ + 1]

\* send_command_receive_response(command) up to the blocking get: thread t
\* writes the command and starts to wait at `waitPc`, or the write raises and
\* t goes to `failPc`.
SendAndWait(t, command, waitPc, failPc) ==
    IF TransportUp
    THEN /\ written' = WriteLine(command)
         /\ pc' = [pc EXCEPT ![t] = waitPc]
         /\ waited' = [waited EXCEPT ![t] = 0]
         /\ callWrites' = [callWrites EXCEPT ![t] = 1]
         /\ sentAt' = [sentAt EXCEPT ![t] = Len(fed)]
         /\ result' = result
    ELSE /\ written' = written
         /\ pc' = [pc EXCEPT ![t] = failPc]
         /\ waited' = waited
         /\ callWrites' = [callWrites EXCEPT ![t] = 0]
         /\ sentAt' = sentAt
         /\ result' = [result EXCEPT ![t] =
                [outcome |-> "TransportError", value |-> None, waited |-> 0, writes |-> 0]]

\* The blocking get of thread t has ended: its wait is over.
EndWait(t) ==
    /\ waited' = [waited EXCEPT ![t] = 0]
    /\ callWrites' = [callWrites EXCEPT ![t] = 0]
    /\ sentAt' = [sentAt EXCEPT ![t] = 0]

\* send_command_receive_response(command) called by a caller of the session
\* (the aliases relative_motion etc. are this call with a fixed command).
CallBegin(t, command) ==
    /\ t \in Callers
    /\ pc[t] = "idle"
    /\ readerState # "none"
    /\ nCommands < MaxCommands
    /\ SendAndWait(t, command, "call_wait", "idle")
    /\ nCommands' = nCommands + 1
    /\ UNCHANGED <<sessionVars, serialOpen, readerState, supervisorVars, lastLine,
                   nLines, fed, completions, stopLog, starts,
                   sessionStops>>

\* responses.get returns the oldest item to the caller.
CallReturn(t) ==
    /\ t \in Callers
    /\ pc[t] = "call_wait"
    /\ responses # <<>>
    /\ responses' = QueueGet(responses).rest
    /\ completions' = Append(completions, QueueGet(responses).item)
    /\ result' = [result EXCEPT ![t] = Outcome(t, "returned", QueueGet(responses).item)]
    /\ pc' = [pc EXCEPT ![t] = "idle"]
    /\ EndWait(t)
    /\ UNCHANGED <<temperatures, positions, last_temperature_report,
                   last_position_report, alive, transportVars, supervisorVars,
                   lastLine, nLines, fed, stopLog, starts, nCommands, sessionStops>>

\* responses.get raises queue.Empty: nothing arrived within the timeout.
CallTimeout(t) ==
    /\ t \in Callers
    /\ pc[t] = "call_wait"
    /\ responses = <<>>
    /\ TimedOut(waited[t])
    /\ result' = [result EXCEPT ![t] = Outcome(t, "Empty", None)]
    /\ pc' = [pc EXCEPT ![t] = "idle"]
    /\ EndWait(t)
    /\ UNCHANGED <<sessionVars, transportVars, supervisorVars, historyVars>>

\* send_command(command): one write, no wait.
SendCommand(t, command) ==
    /\ t \in Callers
    /\ pc[t] = "idle"
    /\ readerState # "none"
    /\ nCommands < MaxCommands
    /\ TransportUp
    /\ written' = WriteLine(command)
    /\ nCommands' = nCommands + 1
    /\ UNCHANGED <<sessionVars, serialOpen, readerState, supervisorVars, threadVars,
                   lastLine, nLines, fed, completions, stopLog, starts,
                   sessionStops>>

\* A stop() on a session that has an `events` queue: line 36 passes, and
\* line 37 puts the sentinel on responses.
SessionStopPutsSentinel(t) ==
    /\ t \in Callers
    /\ pc[t] = "idle"
    /\ readerState # "none"
    /\ sessionStops < MaxStops
    /\ sessionStops' = sessionStops + 1
    /\ alive' = FALSE
    /\ responses' = QueuePut(responses, Sentinel)
    /\ fed' = Append(fed, Sentinel)
    /\ UNCHANGED <<temperatures, positions, last_temperature_report,
                   last_position_report, transportVars, supervisorVars, threadVars,
                   lastLine, nLines, completions, stopLog, starts, nCommands>>

\* MarlinProtocol.stop(): self.alive = False, then self.events.put(None).
\* Neither MarlinProtocol.__init__ nor its bases (serial.threaded.LineReader,
\* Packetizer, Protocol) set an attribute `events`, so that statement raises
\* AttributeError and self.responses.put('<exit>') is not reached.
SessionStop(t) ==
    /\ t \in Callers
    /\ pc[t] = "idle"
    /\ readerState # "none"
    /\ sessionStops < MaxStops
    /\ sessionStops' = sessionStops + 1
    /\ alive' = FALSE
    /\ result' = [result EXCEPT ![t] =
           [outcome |-> "AttributeError", value |-> None, waited |-> 0, writes |-> 0]]
    /\ UNCHANGED <<responses, temperatures, positions, last_temperature_report,
                   last_position_report, transportVars, supervisorVars, pc, waited,
                   callWrites, sentAt, lastLine, nLines, fed, completions, stopLog, starts,
                   nCommands>>

\* Time passes for every thread blocked in responses.get; a get whose timeout
\* has passed ends before more time does.
Tick ==
    /\ \E t \in Threads : pc[t] \in WaitPcs
    /\ \A t \in Threads : pc[t] \in WaitPcs => ~TimedOut(waited[t])
    /\ waited' = [t \in Threads |->
                    IF pc[t] \in WaitPcs THEN waited[t] + TickSeconds ELSE waited[t]]
    /\ UNCHANGED <<sessionVars, transportVars, supervisorVars, pc, callWrites, sentAt, result,
                   historyVars>>

\* ------------------------------------------------- MarlinPrinterThread

\* The record of one stop() call: whether start() had set self.printer and how
\* many start() calls came before it, what the call wrote and closed, whether
\* its M155S0 was acknowledged, and how it ended.
StopEntry ==
    [started |-> printer, starts |-> starts, wrote |-> 0, acked |-> FALSE, closed |-> 0,
     outcome |-> "running"]

LogLast(log, entry) == [log EXCEPT ![Len(log)] = entry]

\* start() when self.printer is None and the port is open: the ReaderThread
\* connects a new MarlinProtocol; then the polling thread is created.
\* start() when self.printer is set: only the polling thread is created.
Start ==
    /\ pc[Main] = "idle"
    /\ starts < MaxStarts
    /\ printer \/ serialOpen
    /\ printer' = TRUE
    /\ readerState' = IF printer THEN readerState ELSE "running"
    /\ thread' = starts + 1
    /\ pc' = [pc EXCEPT ![Poll(starts + 1)] = "enable"]
    /\ starts' = starts + 1
    /\ UNCHANGED <<sessionVars, serialOpen, written, closeSerialOnExit, stopThread,
                   waited, callWrites, sentAt, result, lastLine, nLines, fed, completions,
                   stopLog, nCommands, sessionStops>>

\* start() when self.printer is None and the port is closed: the reader thread
\* ends at once. ReaderThread.__enter__ either sees that and raises RuntimeError
\* (nothing is assigned, no polling thread), or returns the protocol just
\* before, and the protocol then has no transport to write to.
StartOnClosedPort ==
    /\ pc[Main] = "idle"
    /\ starts < MaxStarts
    /\ ~printer /\ ~serialOpen
    /\ starts' = starts + 1
    /\ \/ /\ result' = [result EXCEPT ![Main] =
                 [outcome |-> "RuntimeError", value |-> None, waited |-> 0, writes |-> 0]]
          /\ UNCHANGED <<printer, readerState, thread, pc>>
       \/ /\ printer' = TRUE
          /\ readerState' = "lost"
          /\ thread' = starts + 1
          /\ pc' = [pc EXCEPT ![Poll(starts + 1)] = "enable"]
          /\ UNCHANGED result
    /\ UNCHANGED <<sessionVars, serialOpen, written, closeSerialOnExit, stopThread,
                   waited, callWrites, sentAt, lastLine, nLines, fed, completions, stopLog,
                   nCommands, sessionStops>>

\* _thread_fn: self.printer.continous_temperature_reporting()
PollEnable(i) ==
    /\ pc[Poll(i)] = "enable"
    /\ SendAndWait(Poll(i), "M155S1", "enable_wait", "dead")
    /\ UNCHANGED <<sessionVars, serialOpen, readerState, supervisorVars, historyVars>>

\* _thread_fn: the while test, and self.printer.report_position() when
\* _stop_thread is not set; the thread ends when it is.
PollLoop(i) ==
    /\ pc[Poll(i)] = "loop"
    /\ IF stopThread
       THEN /\ pc' = [pc EXCEPT ![Poll(i)] = "dead"]
            /\ UNCHANGED <<written, waited, callWrites, sentAt, result>>
       ELSE /\ written["M114"] < MaxPolls
            /\ SendAndWait(Poll(i), "M114", "poll_wait", "dead")
    /\ UNCHANGED <<sessionVars, serialOpen, readerState, supervisorVars, historyVars>>

\* _thread_fn: the acknowledgement wait of either command returns; after
\* report_position the thread sleeps position_report_interval and is back at
\* the while test (the sleep takes no step of its own).
PollAck(i) ==
    /\ pc[Poll(i)] \in {"enable_wait", "poll_wait"}
    /\ responses # <<>>
    /\ responses' = QueueGet(responses).rest
    /\ completions' = Append(completions, QueueGet(responses).item)
    /\ pc' = [pc EXCEPT ![Poll(i)] = "loop"]
    /\ EndWait(Poll(i))
    /\ UNCHANGED <<temperatures, positions, last_temperature_report,
                   last_position_report, alive, transportVars, supervisorVars, result,
                   lastLine, nLines, fed, stopLog, starts, nCommands, sessionStops>>

\* _thread_fn: queue.Empty leaves the thread function; the thread ends.
PollTimeout(i) ==
    /\ pc[Poll(i)] \in {"enable_wait", "poll_wait"}
    /\ responses = <<>>
    /\ TimedOut(waited[Poll(i)])
    /\ pc' = [pc EXCEPT ![Poll(i)] = "dead"]
    /\ result' = [result EXCEPT ![Poll(i)] = Outcome(Poll(i), "Empty", None)]
    /\ EndWait(Poll(i))
    /\ UNCHANGED <<sessionVars, transportVars, supervisorVars, historyVars>>

\* A last test without the flag: `if self._ser is not None`.
ClosesPortAlways == TRUE

\* stop(), the last test: self._close_serial_on_exit and self._ser is not None
\* (self._ser is never None).
ClosesPort == closeSerialOnExit

\* stop(), the last statement: self._ser.close() under that test, and the
\* call returns. The entry of the call.
StopRelease(entry) ==
    [entry EXCEPT !.closed = IF ClosesPort THEN @ + 1 ELSE @,
                  !.outcome = "returned"]

\* stop() from `if self.printer is not None` on, `log` ending with the call's
\* entry: with a printer, disable_temperature_reporting() writes M155S0 and
\* waits (or the write raises out of stop()); without, the port is released
\* and stop() returns.
StopPrinter(log) ==
    IF printer
    THEN /\ SendAndWait(Main, "M155S0", "stop_wait", "idle")
         /\ stopLog' = LogLast(log,
                [log[Len(log)] EXCEPT !.wrote = IF TransportUp THEN 1 ELSE 0,
                                      !.outcome = IF TransportUp THEN "running"
                                                  ELSE "TransportError"])
         /\ UNCHANGED serialOpen
    ELSE /\ stopLog' = LogLast(log, StopRelease(log[Len(log)]))
         /\ serialOpen' = (serialOpen /\ ~ClosesPort)
         /\ pc' = [pc EXCEPT ![Main] = "idle"]
         /\ UNCHANGED <<written, waited, callWrites, sentAt, result>>

\* stop(), first part: with a thread, set _stop_thread and go to join it.
StopBegin ==
    /\ pc[Main] = "idle"
    /\ Len(stopLog) < MaxStops
    /\ IF thread # 0
       THEN /\ stopThread' = TRUE
            /\ stopLog' = Append(stopLog, StopEntry)
            /\ pc' = [pc EXCEPT ![Main] = "stop_join"]
            /\ UNCHANGED <<serialOpen, written, waited, callWrites, sentAt, result>>
       ELSE /\ StopPrinter(Append(stopLog, StopEntry))
            /\ UNCHANGED stopThread
    /\ UNCHANGED <<sessionVars, readerState, closeSerialOnExit, printer, thread,
                   lastLine, nLines, fed, completions, starts, nCommands, sessionStops>>

\* stop(): self.thread.join() returns once that thread has ended.
StopJoin ==
    /\ pc[Main] = "stop_join"
    /\ pc[Poll(thread)] = "dead"
    /\ thread' = 0
    /\ StopPrinter(stopLog)
    /\ UNCHANGED <<sessionVars, readerState, closeSerialOnExit, printer, stopThread,
                   lastLine, nLines, fed, completions, starts, nCommands, sessionStops>>

\* stop(): M155S0 is acknowledged, and the next statement,
\* self.printer.__exit__(), raises AttributeError: self.printer is the
\* MarlinProtocol that ReaderThread.__enter__ returned, and neither it nor its
\* bases define __exit__ (the ReaderThread that does was a local of start()).
\* The statements after it do not run.
StopAck ==
    /\ pc[Main] = "stop_wait"
    /\ responses # <<>>
    /\ responses' = QueueGet(responses).rest
    /\ completions' = Append(completions, QueueGet(responses).item)
    /\ stopLog' = LogLast(stopLog, [stopLog[Len(stopLog)] EXCEPT
                                        !.acked = TRUE, !.outcome = "AttributeError"])
    /\ result' = [result EXCEPT ![Main] = Outcome(Main, "AttributeError", None)]
    /\ pc' = [pc EXCEPT ![Main] = "idle"]
    /\ EndWait(Main)
    /\ UNCHANGED <<temperatures, positions, last_temperature_report,
                   last_position_report, alive, transportVars, supervisorVars,
                   lastLine, nLines, fed, starts, nCommands, sessionStops>>

\* stop(): no acknowledgement of M155S0 within the timeout; queue.Empty
\* leaves stop().
StopTimeout ==
    /\ pc[Main] = "stop_wait"
    /\ responses = <<>>
    /\ TimedOut(waited[Main])
    /\ stopLog' = LogLast(stopLog, [stopLog[Len(stopLog)] EXCEPT !.outcome = "Empty"])
    /\ result' = [result EXCEPT ![Main] = Outcome(Main, "Empty", None)]
    /\ pc' = [pc EXCEPT ![Main] = "idle"]
    /\ EndWait(Main)
    /\ UNCHANGED <<sessionVars, transportVars, supervisorVars, lastLine, nLines, fed,
                   completions, starts, nCommands, sessionStops>>

\* --------------------------------------------------------- specifications

InitCommon ==
    /\ responses = <<>>
    /\ temperatures = EmptyDict
    /\ positions = EmptyDict
    /\ last_temperature_report = None
    /\ last_position_report = None
    /\ alive = TRUE
    /\ serialOpen = TRUE
    /\ written = [c \in Commands |-> 0]
    /\ printer = FALSE
    /\ thread = 0
    /\ stopThread = FALSE
    /\ pc = [t \in Threads |-> IF t \in Callers THEN "idle" ELSE "unborn"]
    /\ waited = [t \in Threads |-> 0]
    /\ callWrites = [t \in Threads |-> 0]
    /\ sentAt = [t \in Threads |-> 0]
    /\ result = [t \in Threads |-> NoResult]
    /\ lastLine = None
    /\ nLines = 0
    /\ fed = <<>>
    /\ completions = <<>>
    /\ stopLog = <<>>
    /\ starts = 0
    /\ nCommands = 0
    /\ sessionStops = 0

\* MarlinPrinterThread(port): port a name (the supervisor opens it) or an
\* open serial port.
Init ==
    /\ InitCommon
    /\ closeSerialOnExit \in BOOLEAN
    /\ readerState = "none"

Next ==
    \/ Start
    \/ StartOnClosedPort
    \/ StopBegin
    \/ StopJoin
    \/ StopAck
    \/ StopTimeout
    \/ \E i \in 1..MaxStarts : PollEnable(i)
    \/ \E i \in 1..MaxStarts : PollLoop(i)
    \/ \E i \in 1..MaxStarts : PollAck(i)
    \/ \E i \in 1..MaxStarts : PollTimeout(i)
    \/ \E line \in SupervisedLines : HandleLine(line)
    \/ Tick

Spec == Init /\ [][Next]_vars

\* A MarlinProtocol connected by a ReaderThread to an open port, used by its
\* callers directly.
SessionInit ==
    /\ InitCommon
    /\ closeSerialOnExit = FALSE
    /\ readerState = "running"

SessionNext ==
    \/ \E line \in AckLines : HandleLine(line)
    \/ \E t \in Callers : CallBegin(t, "G91")
    \/ \E t \in Callers : CallReturn(t)
    \/ \E t \in Callers : CallTimeout(t)
    \/ \E t \in Callers : SendCommand(t, "M104 S0")
    \/ \E t \in Callers : SessionStop(t)
    \/ Tick

SessionSpec == SessionInit /\ [][SessionNext]_vars

\* The same session, receiving lines of every kind.
LineNext == \E line \in Lines : HandleLine(line)

LineSpec == SessionInit /\ [][LineNext]_vars

\* ------------------------------------------------------------------ claims

Range(q) == {q[i] : i \in 1..Len(q)}

\* The last line handled, as handle_line sees it after strip()
LastStripped == IF lastLine = None THEN <<>> ELSE Strip(lastLine)

\* C1 (as claimed): once handle_line has processed a position report whose
\* tokens all parse, self.positions holds, for every axis label of the line,
\* the sample with the value from before "Count" and the steps from after it.
C1_PositionMapHoldsReport ==
    (/\ lastLine # None
     /\ Classify(LastStripped) = "position"
     /\ ~ParsePositionReport(LastStripped).raised)
    => \A k \in DOMAIN ParsePositionReport(LastStripped).positions :
          /\ k \in DOMAIN positions
          /\ positions[k] = ParsePositionReport(LastStripped).positions[k]

\* C2 (as claimed): once MarlinProtocol.stop() has been called, the liveness
\* flag is false and the sentinel has been put on the responses queue (so that
\* a caller blocked in the get is woken by it).
C2_StopPushesSentinel ==
    sessionStops > 0 => (alive = FALSE /\ Sentinel \in Range(fed))

\* A stop() call of the log that follows another with no start() in between,
\* the earlier one on a started supervisor and gone through (its M155S0
\* acknowledged), both ended.
SecondStop(i) ==
    /\ i \in 2..Len(stopLog)
    /\ stopLog[i - 1].started
    /\ stopLog[i - 1].acked
    /\ stopLog[i - 1].outcome # "running"
    /\ stopLog[i].starts = stopLog[i - 1].starts
    /\ stopLog[i].outcome # "running"

\* C3 (as claimed): a second stop() on a started supervisor raises no error,
\* sends no command and does not close the port.
C3_SecondStopIsNoOp ==
    \A i \in 1..Len(stopLog) :
        SecondStop(i) =>
            /\ stopLog[i].outcome = "returned"
            /\ stopLog[i].wrote = 0
            /\ stopLog[i].closed = 0

\* No start() call yet: the supervisor is as __init__ left it, apart from the
\* port.
SupervisorAsCreated ==
    /\ ~printer
    /\ thread = 0
    /\ ~stopThread
    /\ readerState = "none"
    /\ \A c \in Commands : written[c] = 0

\* C4 (as claimed): stop() before start() changes no supervisor state, sends
\* no command and does not close the port, whoever opened it.
C4_StopBeforeStartIsNoOp ==
    starts = 0 =>
        /\ SupervisorAsCreated
        /\ serialOpen
        /\ \A i \in 1..Len(stopLog) :
              /\ stopLog[i].outcome = "returned"
              /\ stopLog[i].wrote = 0
              /\ stopLog[i].closed = 0

\* C4 (amended): stop() before start() returns, changes no supervisor state
\* and sends no command; it closes the port exactly when the supervisor opened
\* it itself, and leaves a port passed in open alone.
C4_StopBeforeStartOnlyReleasesOwnPort ==
    starts = 0 =>
        /\ SupervisorAsCreated
        /\ serialOpen <=> ~(closeSerialOnExit /\ stopLog # <<>>)
        /\ \A i \in 1..Len(stopLog) :
              /\ stopLog[i].outcome = "returned"
              /\ stopLog[i].wrote = 0
              /\ stopLog[i].closed = IF closeSerialOnExit THEN 1 ELSE 0

\* C4's case: stop() was called before any start() on a supervisor that opened
\* its port, and has closed it.
C4_Witness ==
    /\ starts = 0
    /\ Len(stopLog) = 1
    /\ stopLog[1].outcome = "returned"
    /\ stopLog[1].closed = 1
    /\ ~serialOpen

\* C5 (as claimed): when stop() has written M155S0 and waits for its
\* acknowledgement, every polling loop has ended, the line-reading loop is
\* still up and the port is still open.
C5_PollingEndedBeforeDisable ==
    pc[Main] = "stop_wait" =>
        /\ \A i \in 1..MaxStarts : pc[Poll(i)] \in {"unborn", "dead"}
        /\ readerState = "running"
        /\ serialOpen

\* C6 (as claimed): a stop() of a started supervisor that went through (its
\* M155S0 acknowledged) has returned, the line-reading loop is torn down, and
\* the port is closed exactly when the supervisor opened it.
C6_StopTearsDownAndReleases ==
    (/\ stopLog # <<>>
     /\ stopLog[Len(stopLog)].started
     /\ stopLog[Len(stopLog)].acked
     /\ stopLog[Len(stopLog)].outcome # "running"
     /\ stopLog[Len(stopLog)].starts = starts)
    => /\ stopLog[Len(stopLog)].outcome = "returned"
       /\ readerState # "running"
       /\ serialOpen <=> ~closeSerialOnExit

\* C7: the items the completed send_command_receive_response calls returned
\* are the acknowledgement lines handle_line queued, in arrival order, none
\* lost, doubled or reordered: the i-th completion returned the i-th line, and
\* what is left is still queued in order.
C7_CompletionsInArrivalOrder ==
    /\ fed = completions \o responses
    /\ \A i \in 1..Len(completions) : completions[i] = fed[i]
    /\ \A t \in Callers :
          result[t].outcome = "returned" => result[t].value \in Range(completions)

\* C7's case: two different acknowledgement lines were fed and two calls have
\* completed with them.
C7_Witness ==
    /\ Len(completions) = 2
    /\ completions[1] # completions[2]
    /\ responses = <<>>
    /\ \E t \in Callers : result[t].outcome = "returned" /\ result[t].value = completions[2]

\* C8: a send_command_receive_response that ends with the timeout error has
\* waited the full timeout, wrote its command once and returned no line; a
\* call that waits has written its command once and is not left waiting
\* beyond the timeout; a value returned is a line that arrived; and every
\* command sent was written once (none is retried).
C8_TimeoutOnlyAfterFullWait ==
    /\ written["G91"] + written["M104 S0"] = nCommands
    /\ \A t \in Callers :
          /\ result[t].outcome = "Empty" =>
                /\ result[t].waited >= ResponseTimeout
                /\ result[t].writes = 1
                /\ result[t].value = None
          /\ pc[t] = "call_wait" =>
                /\ callWrites[t] = 1
                /\ waited[t] < ResponseTimeout + TickSeconds
          /\ result[t].outcome = "returned" => result[t].value \in Range(fed)

\* C8's case: no acknowledgement ever arrived and a call has timed out.
C8_Witness ==
    /\ fed = <<>>
    /\ \E t \in Callers : result[t].outcome = "Empty" /\ result[t].waited >= ResponseTimeout

\* C9: a handle_line step whose line is empty or whitespace only changes
\* neither map, neither raw report slot, nor the acknowledgement queue.
C9_BlankLineChangesNothing ==
    [][(nLines' = nLines + 1 /\ Strip(lastLine') = <<>>)
          => UNCHANGED <<responses, temperatures, positions, last_temperature_report,
                         last_position_report, alive, fed>>]_vars

\* C9's case: a line of whitespace only has been handled.
C9_Witness == lastLine = LineBlank /\ nLines > 0

\* C10: a handle_line step whose stripped line starts with "ok" appends that
\* stripped line to the acknowledgement queue and changes neither map nor raw
\* report slot, whatever follows the "ok".
C10_OkLineIsAcknowledgement ==
    [][(nLines' = nLines + 1 /\ StartsWith(Strip(lastLine'), Ok))
          => /\ responses' = Append(responses, Strip(lastLine'))
             /\ UNCHANGED <<temperatures, positions, last_temperature_report,
                            last_position_report>>]_vars

\* C10's case: "ok T:20.38 /185.00" has been handled and is queued.
C10_Witness ==
    /\ lastLine = LineOkTemperature
    /\ responses # <<>>
    /\ responses[Len(responses)] = LineOkTemperature

\* A telemetry line whose parser raises.
LineFails(line) ==
    \/ /\ StartsWith(Strip(line), <<"T">>)
       /\ ParseTemperatureReport(Strip(line), EmptyDict).raised
    \/ /\ StartsWith(Strip(line), <<"X">>)
       /\ ParsePositionReport(Strip(line)).raised

\* The line handled last was such a line.
LastLineFailed == lastLine # None /\ LineFails(lastLine)

\* dict.update: d with the entries of e written over it
Override(d, e) ==
    [k \in (DOMAIN d) \cup (DOMAIN e) |-> IF k \in DOMAIN e THEN e[k] ELSE d[k]]

\* C11: every handle_line step leaves the reader running, also one whose
\* parser raised; and the line handled right after a line that failed to parse
\* is dispatched on its own content and writes what it writes on a fresh
\* session: an "ok" line is queued, a temperature line writes its entries and
\* its raw report, a position line its raw report, any other line nothing.
C11_ParseFailureDoesNotStopReader ==
    [][nLines' = nLines + 1 =>
          /\ readerState' = "running"
          /\ LastLineFailed =>
                LET s == Strip(lastLine')
                    isOk == StartsWith(s, Ok)
                    isT == ~isOk /\ StartsWith(s, <<"T">>)
                    isX == ~isOk /\ StartsWith(s, <<"X">>)
                IN  /\ responses' = IF isOk THEN Append(responses, s) ELSE responses
                    /\ temperatures' =
                          IF isT
                          THEN Override(temperatures,
                                        ParseTemperatureReport(s, EmptyDict).temperatures)
                          ELSE temperatures
                    /\ last_temperature_report' =
                          IF isT THEN Replace(s, <<" ", "/">>, <<"/">>)
                          ELSE last_temperature_report
                    /\ last_position_report' = IF isX THEN s ELSE last_position_report
                    /\ positions' = positions]_vars

\* C11's case: "T:20.38 /185.00 B:21.5 T:20.x" failed to parse, and the "ok"
\* that came after it has been queued by the reader, which is still running.
C11_Witness ==
    /\ nLines = 2
    /\ last_temperature_report = Replace(LineTemperatureBad, <<" ", "/">>, <<"/">>)
    /\ lastLine = LineOk
    /\ responses = <<Ok>>
    /\ readerState = "running"

\* The fields of a temperature report: its words, a setpoint column " /185.00"
\* taken with the temperature before it.
ReportFields(s) == Split(Replace(s, <<" ", "/">>, <<"/">>))

FieldLabel(f) == Partition(f, <<":">>)[1]

FieldValue(f) == Partition(f, <<":">>)[3]

IsPwmField(f) == Contains(FieldLabel(f), <<"@">>)

\* A field "label:actual" or "label:actual/setpoint" of two numbers.
NumericField(f) ==
    LET v == FieldValue(f)
        i == Find(v, <<"/">>)
    IN  IF i = 0 THEN ParseFloat(v).ok
        ELSE /\ ParseFloat(SubSeq(v, 1, i - 1)).ok
             /\ ParseFloat(SubSeq(v, i + 1, Len(v))).ok

\* The sample a numeric field stands for.
FieldSample(f) ==
    LET v == FieldValue(f)
        i == Find(v, <<"/">>)
    IN  IF i = 0 THEN Temperature(Float(ParseFloat(v)), NoneFloat)
        ELSE Temperature(Float(ParseFloat(SubSeq(v, 1, i - 1))),
                         Float(ParseFloat(SubSeq(v, i + 1, Len(v)))))

\* 20.38 and 185.00 as float() gives them
F2038 == [none |-> FALSE, m |-> 2038, e |-> 2]
F185 == [none |-> FALSE, m |-> 185, e |-> 0]

\* C12: a handle_line step on a temperature report all of whose fields are
\* numeric leaves, for every field whose label has no "@", the entry under
\* that label with the actual and the setpoint of the field (the last such
\* field, should a label come twice), setpoint None without "/"; it creates
\* entries under those labels only and changes no other entry. The step on
\* "T:20.38 /185.00 @:127" sets T to (20.38, 185.00) and adds no other key.
C12_TemperatureFieldsBecomeEntries ==
    [][(/\ nLines' = nLines + 1
        /\ StartsWith(Strip(lastLine'), <<"T">>)
        /\ \A i \in 1..Len(ReportFields(Strip(lastLine'))) :
              LET f == ReportFields(Strip(lastLine'))[i]
              IN  IsPwmField(f) \/ NumericField(f))
       => LET fields == ReportFields(Strip(lastLine'))
              kept == {i \in 1..Len(fields) : ~IsPwmField(fields[i])}
              labels == {FieldLabel(fields[i]) : i \in kept}
          IN  /\ DOMAIN temperatures' = (DOMAIN temperatures) \cup labels
              /\ \A i \in kept :
                    (\A j \in kept : j > i => FieldLabel(fields[j]) # FieldLabel(fields[i]))
                    => temperatures'[FieldLabel(fields[i])] = FieldSample(fields[i])
              /\ \A k \in (DOMAIN temperatures) \ labels : temperatures'[k] = temperatures[k]
              /\ lastLine' = LineTemperature =>
                    /\ temperatures'[<<"T">>] = Temperature(F2038, F185)
                    /\ DOMAIN temperatures' = (DOMAIN temperatures) \cup {<<"T">>}]_vars

\* C12's case: "T:20.38 /185.00 B:21.5 @:127" has been handled: T has actual
\* and setpoint, B has no setpoint, and there is no entry for "@".
C12_Witness ==
    /\ lastLine = LineTemperatureBed
    /\ DOMAIN temperatures = {<<"T">>, <<"B">>}
    /\ temperatures[<<"T">>] = Temperature(F2038, F185)
    /\ temperatures[<<"B">>].setpoint = NoneFloat

\* The threads that have written a command and are blocked in responses.get.
Waiting == {t \in Threads : pc[t] \in WaitPcs}

\* C13 (as claimed): at most one thread at a time is between the write of its
\* command and the end of its responses.get.
C13_OneOutstandingCommand == Cardinality(Waiting) <= 1

\* C14 (as claimed): the item a responses.get hands to a thread was put on the
\* queue after that thread's call wrote its command. (The items come off in
\* the order they were put on, so the item a get returns is number
\* Len(completions) + 1 of all items ever put on.)
C14_AckAnswersOwnCommand ==
    [][\A t \in Threads :
          (pc[t] \in WaitPcs /\ pc'[t] \notin WaitPcs /\ completions' # completions)
          => Len(completions) >= sentAt[t]]_vars

\* The last stop() call was made on a started supervisor and has ended,
\* returning or raising, and no start() has been called since.
StartedStopEnded ==
    /\ stopLog # <<>>
    /\ stopLog[Len(stopLog)].started
    /\ stopLog[Len(stopLog)].outcome # "running"
    /\ stopLog[Len(stopLog)].starts = starts

\* C15 (as claimed): once a stop() call on a started supervisor has ended,
\* however it ended, the reader thread is no longer running and a port the
\* supervisor opened itself is closed.
C15_StopNeverLeaksConnection ==
    StartedStopEnded =>
        /\ readerState # "running"
        /\ closeSerialOnExit => ~serialOpen

\* The polling threads that have been started and have not ended.
PollingTasks == {i \in 1..MaxStarts : pc[Poll(i)] \notin {"unborn", "dead"}}

\* C16 (as claimed): there is never more than one polling thread, and when the
\* last stop() call has ended, with no start() since, there is none.
C16_AtMostOnePollingTask ==
    /\ Cardinality(PollingTasks) <= 1
    /\ (/\ stopLog # <<>>
        /\ stopLog[Len(stopLog)].outcome # "running"
        /\ stopLog[Len(stopLog)].starts = starts) => PollingTasks = {}

\* C17 (as claimed): once a stop() call on a started supervisor has ended, no
\* start() call made after it has created a polling thread (the threads are
\* numbered by the start() call that creates them).
C17_StoppedIsTerminal ==
    \A i \in 1..Len(stopLog) :
        (stopLog[i].started /\ stopLog[i].outcome # "running")
        => \A j \in (stopLog[i].starts + 1)..MaxStarts : pc[Poll(j)] = "unborn"

\* How many times the sentinel has been put on the responses queue.
SentinelPuts == Cardinality({i \in 1..Len(fed) : fed[i] = Sentinel})

\* C18 (as claimed): the responses queue holds nothing but lines that start
\* with "ok" and the sentinel, in the order they were put on; the sentinel has
\* been put on once if MarlinProtocol.stop() has been called, however many
\* times, and not at all if it has not.
C18_QueueHoldsAcksAndOneSentinel ==
    /\ \A i \in 1..Len(responses) :
          responses[i] = Sentinel \/ StartsWith(responses[i], Ok)
    /\ fed = completions \o responses
    /\ SentinelPuts = IF sessionStops > 0 THEN 1 ELSE 0

\* C19: every value a responses.get has returned, and so every value a
\* send_command_receive_response call (or an alias of it) has returned to its
\* caller, is a line that was received and starts with "ok"; it is never the
\* sentinel.
C19_ReturnedValueIsOkLine ==
    /\ \A i \in 1..Len(completions) :
          /\ StartsWith(completions[i], Ok)
          /\ completions[i] # Sentinel
    /\ \A t \in Callers :
          result[t].outcome = "returned" =>
              /\ StartsWith(result[t].value, Ok)
              /\ result[t].value # Sentinel
              /\ \E line \in Lines : result[t].value = Strip(line)

\* C19's case: MarlinProtocol.stop() has been called, and a call that had to
\* wait has returned the one line received, "ok 1".
C19_Witness ==
    /\ sessionStops > 0
    /\ fed = <<<<"o", "k", " ", "1">>>>
    /\ \E t \in Callers :
          /\ result[t].outcome = "returned"
          /\ result[t].value = <<"o", "k", " ", "1">>
          /\ result[t].waited > 0

\* C20 (as claimed): a handle_line step on a telemetry line whose parser raises
\* changes neither map and neither raw report slot.
C20_FailedLineIsDiscarded ==
    [][(nLines' = nLines + 1 /\ LineFails(lastLine'))
          => UNCHANGED <<temperatures, positions, last_temperature_report,
                         last_position_report>>]_vars

====
